---- MODULE Spec2Model ----
(***************************************************************************)
(* Model of bindings/python/setup.py of pkgcraft: the build script that    *)
(* declares the extension list, hands it to cythonize() and passes the     *)
(* result to setup().                                                      *)
(*                                                                         *)
(* The script's own code is the declaration of the list (line 4) and the   *)
(* order "cythonize(extensions) is evaluated, then setup() is called"      *)
(* (lines 6-9); it has no try/except, so whatever cythonize() or setup()   *)
(* raises ends the process.  What the two calls do is modelled at the      *)
(* granularity of the stages they run: cythonize() resolves every source   *)
(* pattern and then translates the stale sources one by one, setup() runs  *)
(* build_ext, which compiles and links the extensions in list order.  The  *)
(* translator, the C compiler and the linker are black boxes whose verdict *)
(* is a property of the host (which files exist, what they contain, which  *)
(* libraries the search path resolves).                                    *)
(***************************************************************************)
EXTENDS Integers, Sequences, FiniteSets, TLC

\* ------------------------------------------------------------------ bounds
MaxTargets == 2      \* longest extension list explored
MaxRuns == 2         \* invocations of the script on the same host
MaxInvocations == 2  \* cap of the per-stage invocation counters

\* ------------------------------------------------------- the declared list
Stages == <<"translate", "compile", "link">>
StageSet == {Stages[k] : k \in 1..Len(Stages)}

\* setuptools.Extension(name, sources, libraries=...); a path is kept as
\* os.path.splitext keeps it, <<root, ext>>.
Extension(name, sources, libraries) ==
    [name |-> name, sources |-> sources, libraries |-> libraries]

\* extensions[0] of setup.py
pkgcraft_ext == Extension("pkgcraft", <<(<<"src/pkgcraft", ".pyx">>)>>, <<"pkgcraft">>)

\* Further entries the list could hold: the script treats the list uniformly.
ExtNames == <<"pkgcraft", "aux", "extra", "more", "spare">>
ExtLibraries == << <<"pkgcraft">>, <<"pkgcraft", "m">>, <<"m">>, <<"pkgcraft">>, <<"m">> >>
Libraries == {"pkgcraft", "m"}
LibraryDirs == {"/usr/lib", "/usr/local/lib"}
InstalledIn(d) == IF d = "/usr/lib" THEN {"m"} ELSE {"pkgcraft"}
Symbols == {"pkgcraft_lib_version"}

Pool(i) ==
    IF i = 1 THEN pkgcraft_ext
    ELSE Extension(ExtNames[i], <<(<<"src/" \o ExtNames[i], ".pyx">>)>>, ExtLibraries[i])

ExtensionLists == {[i \in 1..n |-> Pool(i)] : n \in 1..MaxTargets}

\* ------------------------------------------------------------------- state
VARIABLES
    extensions,   \* the list handed to cythonize()
    exists,       \* host: source files present
    pyxErrors,    \* host: sources the translator rejects
    cErrors,      \* host: sources whose generated C the compiler rejects
    undefined,    \* host: source -> symbols it references that no library exports
    searchPath,   \* host: directories on the library search path
    strictLinker, \* host: the platform linker rejects undefined symbols in a shared object
    cfiles,       \* disk: generated C files
    objects,      \* disk: object files
    artifacts,    \* disk: built extension modules
    pc,           \* position of the script
    todo,         \* cythonize: indices still to translate
    idx,          \* build_ext: index of the extension being built
    status,       \* per target, this run: "pending" | "ok" | "failed"
    invoked,      \* per target and stage, this run: times the tool was invoked
    report,       \* this run: failures raised, as written to the error stream
    built,        \* this run: artifacts emitted
    exitStatus,   \* process exit status once pc = "exit"
    run           \* number of the current invocation

host == <<exists, pyxErrors, cErrors, undefined, searchPath, strictLinker>>
disk == <<cfiles, objects, artifacts>>
vars == <<extensions, host, disk, pc, todo, idx, status, invoked, report, built,
          exitStatus, run>>

N == Len(extensions)
Targets == 1..N
Source(i) == extensions[i].sources[1]
AllSources(exts) == {exts[i].sources[1] : i \in 1..Len(exts)}

\* ------------------------------------------------------------ file naming
PathStr(p) == p[1] \o p[2]

\* Cython: the C file is written beside the source, extension replaced.
c_file(p) == <<p[1], ".c">>

\* distutils: the object file of a C source.
object_file(p) == <<p[1], ".o">>

EXT_SUFFIX == ".so"

\* Bug: the file name carries the number of the run that wrote it.
get_ext_filename_stamped(name) == <<name, IF run = 1 THEN EXT_SUFFIX ELSE ".new" \o EXT_SUFFIX>>

\* build_ext.get_ext_filename: the module name plus the platform suffix.
get_ext_filename(name) == <<name, EXT_SUFFIX>>

\* ------------------------------------------------------------ host tools
\* The linker's -l<name> lookup: consults the search path.
find_library(l) == \E d \in searchPath : l \in InstalledIn(d)

\* Bug: every library of the extension is blamed when one is missing.
MissingLibrariesAll(ext) ==
    IF \E k \in 1..Len(ext.libraries) : ~find_library(ext.libraries[k])
    THEN {ext.libraries[k] : k \in 1..Len(ext.libraries)}
    ELSE {}

MissingLibraries(ext) ==
    {ext.libraries[k] : k \in {j \in 1..Len(ext.libraries) : ~find_library(ext.libraries[j])}}

\* Bug: an undefined symbol is reported as a generic link failure.
LinkResultGeneric(ext) ==
    LET missing == MissingLibraries(ext)
        undef == undefined[ext.sources[1]]
    IN  IF missing # {} THEN [error |-> "UnresolvedLibrary", detail |-> missing]
        ELSE IF undef # {} /\ strictLinker
             THEN [error |-> "LinkError", detail |-> {}]
             ELSE [error |-> "ok", detail |-> {}]

\* Verdict of the link step of build_ext.build_extension for one extension:
\* a library that is not found ends the link before symbols are resolved; an
\* undefined symbol ends it only where the linker refuses undefined symbols
\* in a shared object.
LinkResult(ext) ==
    LET missing == MissingLibraries(ext)
        undef == undefined[ext.sources[1]]
    IN  IF missing # {} THEN [error |-> "UnresolvedLibrary", detail |-> missing]
        ELSE IF undef # {} /\ strictLinker
             THEN [error |-> "UnresolvedSymbol", detail |-> undef]
             ELSE [error |-> "ok", detail |-> {}]

\* Verdict of the translator (cythonize_one) on one source.
TranslateOk(p) == p \in exists /\ p \notin pyxErrors

\* Verdict of the C compiler on the C file generated from one source.
CompileOk(p) == c_file(p) \in cfiles /\ p \notin cErrors

\* --------------------------------------------------------- cythonize()
\* Bug: the source patterns are not checked before translating.
NoMatchUnchecked(exts) == <<>>

\* create_extension_list: the indices, in list order, whose source pattern
\* matches no file.
NoMatch(exts) == SelectSeq([i \in 1..Len(exts) |-> i], LAMBDA i : exts[i].sources[1] \notin exists)

\* Bug: every C file is taken to be up to date.
to_compile_none(exts) == {}

\* The sources cythonize translates: those whose C file is absent (with the
\* host unchanged between runs, an existing C file is newer than its source).
to_compile(exts) == {i \in 1..Len(exts) : c_file(exts[i].sources[1]) \notin cfiles}

\* build_ext.build_extension: an extension whose module file exists and is
\* newer than its sources is skipped.
UpToDate(ext) == get_ext_filename(ext.name) \in artifacts

\* ----------------------------------------------------------- the script
NoExit == 0 - 1

\* Bug: the script swallows the failure and ends normally.
ExitCodeSwallowed(rep) == 0

\* The script catches nothing: an exception raised by cythonize() or
\* SystemExit("error: ...") raised by setup() ends the process with status 1,
\* falling off the end of the script ends it with status 0.
ExitCode(rep) == IF rep = <<>> THEN 0 ELSE 1

\* Bug: the failure is caught and the script carries on where it was.
OnErrorContinue(at) == at

\* Where the script goes after a stage at position `at` raised.
OnError(at) == "exit"

\* The invocation counter of one stage of one target, counted up to the cap.
Bump(i, stage) ==
    [invoked EXCEPT ![i][stage] = IF @ < MaxInvocations THEN @ + 1 ELSE @]

Failure(i, stage, error, detail) ==
    [target |-> extensions[i].name, stage |-> stage, error |-> error, detail |-> detail]

\* Bug: a failed stage is swallowed and run again.
RaiseRetry(i, stage, error, detail) ==
    /\ status' = status
    /\ report' = report
    /\ pc' = pc
    /\ exitStatus' = exitStatus

\* A stage of target i raises: the failure is written to the error stream and
\* the exception leaves the script.
Raise(i, stage, error, detail) ==
    /\ status' = [status EXCEPT ![i] = "failed"]
    /\ report' = Append(report, Failure(i, stage, error, detail))
    /\ pc' = OnError(pc)
    /\ exitStatus' = IF pc' = "exit" THEN ExitCode(report') ELSE exitStatus

\* Bug: the build extends the library search path.
HostTouched ==
    /\ searchPath' = LibraryDirs
    /\ UNCHANGED <<extensions, exists, pyxErrors, cErrors, undefined, strictLinker, run>>

\* The script reads the host and the list, and writes neither.
HostUnchanged == UNCHANGED <<extensions, host, run>>

Fresh(exts) ==
    /\ pc = "start"
    /\ todo = {}
    /\ idx = 1
    /\ status = [i \in 1..Len(exts) |-> "pending"]
    /\ invoked = [i \in 1..Len(exts) |-> [s \in StageSet |-> 0]]
    /\ report = <<>>
    /\ built = {}
    /\ exitStatus = NoExit

Init ==
    /\ extensions \in ExtensionLists
    /\ exists \in SUBSET AllSources(extensions)
    /\ pyxErrors \in SUBSET exists
    /\ cErrors \in SUBSET (exists \ pyxErrors)
    /\ undefined \in [AllSources(extensions) -> SUBSET Symbols]
    /\ \A p \in AllSources(extensions) : p \notin exists => undefined[p] = {}
    /\ searchPath \in SUBSET LibraryDirs
    /\ strictLinker \in BOOLEAN
    /\ cfiles = {} /\ objects = {} /\ artifacts = {}
    /\ run = 1
    /\ Fresh(extensions)

\* cythonize(extensions), first half: a source pattern that matches no file
\* raises before anything is translated.
SourceNotFound ==
    /\ pc = "start"
    /\ NoMatch(extensions) # <<>>
    /\ LET i == Head(NoMatch(extensions))
       IN  Raise(i, "translate", "SourceNotFound", {PathStr(Source(i))})
    /\ HostUnchanged
    /\ UNCHANGED <<disk, todo, idx, invoked, built>>

CreateExtensionList ==
    /\ pc = "start"
    /\ NoMatch(extensions) = <<>>
    /\ todo' = to_compile(extensions)
    /\ pc' = "cythonize"
    /\ HostUnchanged
    /\ UNCHANGED <<disk, idx, status, invoked, report, built, exitStatus>>

\* cythonize(extensions), second half: cythonize_one per stale source.
CythonizeOne(i) ==
    /\ pc = "cythonize"
    /\ i \in todo
    /\ TranslateOk(Source(i))
    /\ invoked' = Bump(i, "translate")
    /\ cfiles' = cfiles \cup {c_file(Source(i))}
    /\ todo' = todo \ {i}
    /\ HostUnchanged
    /\ UNCHANGED <<objects, artifacts, pc, idx, status, report, built, exitStatus>>

TranslationFails(i) ==
    /\ pc = "cythonize"
    /\ i \in todo
    /\ ~TranslateOk(Source(i))
    /\ invoked' = Bump(i, "translate")
    /\ Raise(i, "translate", "TranslationError", {PathStr(Source(i))})
    /\ HostUnchanged
    /\ UNCHANGED <<disk, todo, idx, built>>

\* Bug: setup() is started without waiting for the translations.
CythonizeReturnsEarly == TRUE

\* cythonize() has returned.
CythonizeDone == todo = {}

\* setup(..., ext_modules=<the list cythonize returned>) is called.
CallSetup ==
    /\ pc = "cythonize"
    /\ CythonizeDone
    /\ pc' = "build_ext"
    /\ idx' = 1
    /\ HostUnchanged
    /\ UNCHANGED <<disk, todo, status, invoked, report, built, exitStatus>>

SkipUpToDate ==
    /\ pc = "build_ext"
    /\ idx <= N
    /\ UpToDate(extensions[idx])
    /\ status' = [status EXCEPT ![idx] = "ok"]
    /\ idx' = idx + 1
    /\ HostUnchanged
    /\ UNCHANGED <<disk, pc, todo, invoked, report, built, exitStatus>>

Compile ==
    /\ pc = "build_ext"
    /\ idx <= N
    /\ ~UpToDate(extensions[idx])
    /\ CompileOk(Source(idx))
    /\ invoked' = Bump(idx, "compile")
    /\ objects' = objects \cup {object_file(Source(idx))}
    /\ pc' = "link"
    /\ HostUnchanged
    /\ UNCHANGED <<cfiles, artifacts, todo, idx, status, report, built, exitStatus>>

CompileFails ==
    /\ pc = "build_ext"
    /\ idx <= N
    /\ ~UpToDate(extensions[idx])
    /\ ~CompileOk(Source(idx))
    /\ invoked' = Bump(idx, "compile")
    /\ Raise(idx, "compile", "CompileError", {PathStr(c_file(Source(idx)))})
    /\ HostUnchanged
    /\ UNCHANGED <<disk, todo, idx, built>>

Link ==
    /\ pc = "link"
    /\ LinkResult(extensions[idx]).error = "ok"
    /\ invoked' = Bump(idx, "link")
    /\ artifacts' = artifacts \cup {get_ext_filename(extensions[idx].name)}
    /\ built' = built \cup {get_ext_filename(extensions[idx].name)}
    /\ status' = [status EXCEPT ![idx] = "ok"]
    /\ idx' = idx + 1
    /\ pc' = "build_ext"
    /\ HostUnchanged
    /\ UNCHANGED <<cfiles, objects, todo, report, exitStatus>>

LinkFails ==
    /\ pc = "link"
    /\ LinkResult(extensions[idx]).error # "ok"
    /\ invoked' = Bump(idx, "link")
    /\ Raise(idx, "link", LinkResult(extensions[idx]).error, LinkResult(extensions[idx]).detail)
    /\ HostUnchanged
    /\ UNCHANGED <<disk, todo, idx, built>>

\* build_ext has gone through the list; setup() returns and the script ends.
SetupReturns ==
    /\ pc = "build_ext"
    /\ idx > N
    /\ pc' = "exit"
    /\ exitStatus' = ExitCode(report)
    /\ HostUnchanged
    /\ UNCHANGED <<disk, todo, idx, status, invoked, report, built>>

\* The operator runs the script again on the unchanged host and disk.
Rerun ==
    /\ pc = "exit"
    /\ run < MaxRuns
    /\ run' = run + 1
    /\ pc' = "start"
    /\ todo' = {}
    /\ idx' = 1
    /\ status' = [i \in Targets |-> "pending"]
    /\ invoked' = [i \in Targets |-> [s \in StageSet |-> 0]]
    /\ report' = <<>>
    /\ built' = {}
    /\ exitStatus' = NoExit
    /\ UNCHANGED <<extensions, host, disk>>

Next ==
    \/ SourceNotFound
    \/ CreateExtensionList
    \/ \E i \in Targets : CythonizeOne(i)
    \/ \E i \in Targets : TranslationFails(i)
    \/ CallSetup
    \/ SkipUpToDate
    \/ Compile
    \/ CompileFails
    \/ Link
    \/ LinkFails
    \/ SetupReturns
    \/ Rerun

Spec == Init /\ [][Next]_vars

\* ================================================================= claims
Name(i) == extensions[i].name
LibsOf(i) == {extensions[i].libraries[k] : k \in 1..Len(extensions[i].libraries)}
NotFound(i) == {l \in LibsOf(i) : \A d \in searchPath : l \notin InstalledIn(d)}
SourceMissing(i) == Source(i) \notin exists
\* Every tool accepts target i on this host.
Sound(i) ==
    /\ Source(i) \in exists
    /\ Source(i) \notin pyxErrors
    /\ Source(i) \notin cErrors
    /\ NotFound(i) = {}
    /\ (undefined[Source(i)] = {} \/ ~strictLinker)
ArtifactsOf(i) == {a \in artifacts : a[1] = Name(i)}
\* Target i went through the build and the output of each stage is on disk.
Completed(i) ==
    /\ status[i] = "ok"
    /\ c_file(Source(i)) \in cfiles
    /\ object_file(Source(i)) \in objects
    /\ ArtifactsOf(i) # {}
Reported(i) == {k \in 1..Len(report) : report[k].target = Name(i)}
AnyInvoked(i) == \E s \in StageSet : invoked[i][s] > 0

\* C1: when the script has exited, its exit status is 0 exactly when every
\* target of the list completed translate, compile and link; a failed target
\* at any stage makes it non-zero.
C1_ExitStatus ==
    pc = "exit" =>
        /\ (exitStatus = 0 <=> \A i \in Targets : Completed(i))
        /\ ((\E i \in Targets : status[i] = "failed") => exitStatus # 0)
        /\ exitStatus \in {0, 1}

C1_Witness ==
    /\ pc = "exit"
    /\ N = 2
    /\ exitStatus # 0
    /\ status[1] = "ok"
    /\ status[2] = "failed"
    /\ report[1].stage = "link"

C7_SearchPathFrozen == [][searchPath' = searchPath]_vars

C7_Witness ==
    /\ pc = "exit"
    /\ searchPath = {"/usr/lib"}
    /\ \E i \in Targets : invoked[i]["link"] = 1 /\ status[i] = "failed"

\* C8: within a target the stages run in the order translate, compile,
\* link: the compiler is started only on a C file the translator has written,
\* the linker only on an object the compiler has written, and an artifact is
\* emitted only by a link that succeeded.
C8_StageOrder ==
    \A i \in Targets :
        /\ (invoked[i]["compile"] > 0 =>
              /\ c_file(Source(i)) \in cfiles
              /\ TranslateOk(Source(i))
              /\ i \notin todo)
        /\ (invoked[i]["link"] > 0 =>
              /\ invoked[i]["compile"] > 0
              /\ object_file(Source(i)) \in objects
              /\ Source(i) \notin cErrors)
        /\ (ArtifactsOf(i) \cap built # {} =>
              /\ invoked[i]["link"] > 0
              /\ status[i] = "ok"
              /\ NotFound(i) = {})
        /\ (ArtifactsOf(i) # {} =>
              /\ c_file(Source(i)) \in cfiles
              /\ object_file(Source(i)) \in objects)
        /\ (pc = "link" /\ idx = i => invoked[i]["compile"] > 0 /\ invoked[i]["link"] = 0)

C8_Witness ==
    /\ pc = "build_ext"
    /\ \E i \in Targets :
          /\ invoked[i] = [s \in StageSet |-> 1]
          /\ ArtifactsOf(i) \cap built # {}

\* C9: within one run each stage of each target is invoked at most once; a
\* failed target has no stage after the failing one, and until the script is
\* run again it stays failed and none of its stages is invoked.
C9_NoRetry ==
    /\ [](\A i \in Targets :
            /\ \A s \in StageSet : invoked[i][s] <= 1
            /\ (status[i] = "failed" =>
                  \A r \in Reported(i) : \A k, h \in 1..Len(Stages) :
                      (Stages[k] = report[r].stage /\ h > k) => invoked[i][Stages[h]] = 0))
    /\ [][\A i \in Targets :
            (status[i] = "failed" /\ run' = run) =>
                (status'[i] = "failed" /\ invoked'[i] = invoked[i] /\ disk' = disk)]_vars

C9_Witness ==
    /\ pc = "exit"
    /\ run = 2
    /\ \E i \in Targets :
          /\ status[i] = "failed"
          /\ invoked[i]["compile"] = 1
          /\ invoked[i]["translate"] = 0
          /\ invoked[i]["link"] = 0

\* C10: setup() starts only after cythonize() has gone through the whole
\* list: whenever a compile or link stage of any target has started, the C
\* file of every target of the list is written; and a run in which a
\* translation failed starts no compile or link stage and produces no artifact.
C10_TranslateAllFirst ==
    /\ ((pc \in {"build_ext", "link"} \/
         \E i \in Targets : invoked[i]["compile"] > 0 \/ invoked[i]["link"] > 0) =>
          /\ todo = {}
          /\ \A j \in Targets : c_file(Source(j)) \in cfiles /\ TranslateOk(Source(j)))
    /\ ((\E k \in 1..Len(report) : report[k].stage = "translate") =>
          /\ built = {}
          /\ \A j \in Targets : invoked[j]["compile"] = 0 /\ invoked[j]["link"] = 0)

\* The second target's translation fails after the first was translated.
C10_Witness ==
    /\ pc = "exit"
    /\ N = 2
    /\ invoked[1]["translate"] = 1
    /\ c_file(Source(1)) \in cfiles
    /\ report[1].error = "TranslationError"
    /\ report[1].target = Name(2)
    /\ Sound(1)
    /\ built = {}

====
